---- MODULE Spec2Model ----
(***************************************************************************)
(* CT_RSA: batch-GCD audit of RSA moduli harvested from a CT log.          *)
(*                                                                         *)
(* Two specifications over one set of variables:                           *)
(*   Spec      analyze_rsa_keys(df) of scripts/analysis/analyze_results.py *)
(*             run on a corpus df, up to the report it saves;              *)
(*   SpecModes batch_gcd_simple and batch_gcd_tree called on one list of   *)
(*             moduli.                                                     *)
(* Python integers are unbounded; every value computed here stays far      *)
(* below 2^31, so no arithmetic is truncated.                              *)
(***************************************************************************)
EXTENDS Integers, Sequences, FiniteSets, TLC

VARIABLES df, pc, stats, moduli, common_factors, results_file,
          simple_result, tree_result,
          state_file, state_file0, log_size, main, output_files,
          fetch, workers, semaphore

vars == <<df, pc, stats, moduli, common_factors, results_file,
          simple_result, tree_result,
          state_file, state_file0, log_size, main, output_files,
          fetch, workers, semaphore>>

\* the variables of the analysis and of the detection modes
analysisVars == <<df, pc, stats, moduli, common_factors, results_file,
                  simple_result, tree_result>>

\* the variables of the crawler's main loop
mainVars == <<state_file, state_file0, log_size, main, output_files>>

\* the variables of one call of fetch_shard_robust
shardVars == <<fetch, workers, semaphore>>

\* the crawler is not running
MainIdle ==
    /\ state_file = [status |-> "absent", next_index |-> 0]
    /\ state_file0 = [status |-> "absent", next_index |-> 0]
    /\ log_size = 0
    /\ main = [pc |-> "idle", start_index |-> 0, shard_end |-> 0, tree_size |-> 0,
               limit_index |-> 0, count |-> 0, write_error |-> FALSE]
    /\ output_files = {}

ShardIdle ==
    /\ fetch = [pc |-> "idle", shard_start |-> 0, shard_end |-> 0,
                tasks |-> <<>>, all_entries |-> <<>>]
    /\ workers = <<>>
    /\ semaphore = 0

\* the analysis is not running
AnalysisIdle ==
    /\ df = <<>>
    /\ pc = "idle"
    /\ stats = <<>>
    /\ moduli = <<>>
    /\ common_factors = <<>>
    /\ results_file = <<>>
    /\ simple_result = <<>>
    /\ tree_result = <<>>

(***************************************************************************)
(* Bounds of the model and the input domains.                              *)
(***************************************************************************)
\* longest freely chosen prefix of a corpus / of a list of moduli
MaxLen == 3
\* most copies of DupModulus appended to a corpus
MaxDup == 12
\* a list given to the detection modes is at most this much longer than
\* the tree mode's threshold
MaxExtra == 1

\* moduli the corpora are drawn from: 3.5, 3.7, 5.7, 7.13, a prime, and
\* the value of int("0", 16)
Moduli == {0, 15, 21, 35, 91, 17}

\* moduli the lists given to the detection modes are drawn from: 3.5, 3.7,
\* 5.7, 7.13 and 3, which divides two of the others
ModeModuli == {3, 15, 21, 35, 91}

\* k copies of x
Copies(k, x) == [i \in 1..k |-> x]

\* every list of at most MaxLen elements of S
Prefixes(S) == UNION {[1..k -> S] : k \in 0..MaxLen}

(***************************************************************************)
(* Python helpers.                                                         *)
(***************************************************************************)
\* math.gcd on non-negative integers: gcd(a, 0) = a
RECURSIVE GCD(_, _)
GCD(a, b) == IF b = 0 THEN a ELSE GCD(b, a % b)

\* int.bit_length()
RECURSIVE BitLength(_)
BitLength(n) == IF n = 0 THEN 0 ELSE 1 + BitLength(n \div 2)

\* format(n, "x"): the hexadecimal digits of n, most significant first
RECURSIVE FormatHex(_)
FormatHex(n) == IF n < 16 THEN <<n>> ELSE Append(FormatHex(n \div 16), n % 16)

\* a character that is no hexadecimal digit
BadDigit == 16

\* the result of int(s, 16) when it raises ValueError
ValueError == -1

\* int(s, 16): ValueError on the empty string and on a non-hex character
RECURSIVE ParseDigits(_, _)
ParseDigits(s, acc) ==
    IF s = <<>> THEN acc ELSE ParseDigits(Tail(s), acc * 16 + Head(s))

ParseHex(s) ==
    IF s = <<>> \/ (\E k \in 1..Len(s) : s[k] > 15)
    THEN ValueError
    ELSE ParseDigits(s, 0)

\* modulus_sha256(n): a digest, taken to be collision free
modulus_sha256(n) == <<"sha256", n>>

\* a Python value as the report holds it: a bool or a dict of some length
PyBool(b) == [type |-> "bool", truthy |-> b, len |-> 0]
PyDict(k) == [type |-> "dict", truthy |-> k > 0, len |-> k]

\* x or y: x when x is truthy, else y
PyOr(x, y) == IF x.truthy THEN x ELSE y
\* x and y: x when x is falsy, else y
PyAnd(x, y) == IF x.truthy THEN y ELSE x
\* x is not None: no dict and no bool is None
IsNotNone(x) == x.type \in {"bool", "dict"}

\* round(a / b * 100, 2), in hundredths of a percent.  Half rounds up
\* here; a tie needs 32 | b, more records than any corpus below has.
Round2(a, b) == (2 * a * 10000 + b) \div (2 * b)

\* str(n): the decimal digits of n, most significant first
RECURSIVE Str(_)
Str(n) == IF n < 10 THEN <<n>> ELSE Append(Str(n \div 10), n % 10)

\* sorted(S) for a set of integers
RECURSIVE Sorted(_)
Sorted(S) ==
    IF S = {} THEN <<>>
    ELSE LET lo == CHOOSE x \in S : \A y \in S : x <= y
         IN <<lo>> \o Sorted(S \ {lo})

\* sum(f[k] for k in 1..Len(f))
RECURSIVE SumSeq(_)
SumSeq(f) == IF f = <<>> THEN 0 ELSE Head(f) + SumSeq(Tail(f))

(***************************************************************************)
(* batch_gcd_simple (Mode A): every pair i < j of the list.                *)
(* A dict {gcd: [(n1, n2), ...]} is a function from its keys to the list   *)
(* of pairs appended under each key, in append order.                      *)
(***************************************************************************)
\* the dict a sequence of appends common_factors[g].append((n1, n2)) builds
RECURSIVE PairsUnder(_, _)
PairsUnder(appends, g) ==
    IF appends = <<>> THEN <<>>
    ELSE LET f == Head(appends)
             rest == PairsUnder(Tail(appends), g)
         IN IF f[1] = g THEN <<f[2]>> \o rest ELSE rest

ToDict(appends) ==
    [g \in {appends[k][1] : k \in 1..Len(appends)} |-> PairsUnder(appends, g)]

\* SimplePair with "if gcd >= 1" for "if gcd > 1"
SimplePairGe1(n1, n2) ==
    IF n1 = n2 THEN <<>>
    ELSE LET gcd == GCD(n1, n2)
         IN IF gcd >= 1 THEN << <<gcd, <<n1, n2>> >> >> ELSE <<>>

\* SimplePair without its "if n1 == n2: continue"
SimplePairNoSkip(n1, n2) ==
    LET gcd == GCD(n1, n2)
    IN IF gcd > 1 THEN << <<gcd, <<n1, n2>> >> >> ELSE <<>>

\* the body of the inner loop for one pair (n1, n2): what it appends
SimplePair(n1, n2) ==
    IF n1 = n2 THEN <<>>
    ELSE LET gcd == GCD(n1, n2)
         IN IF gcd > 1 THEN << <<gcd, <<n1, n2>> >> >> ELSE <<>>

\* for j in range(i + 1, len(moduli))
RECURSIVE SimpleInner(_, _, _)
SimpleInner(m, i, j) ==
    IF j > Len(m) THEN <<>>
    ELSE SimplePair(m[i], m[j]) \o SimpleInner(m, i, j + 1)

\* for i in range(len(moduli))
RECURSIVE SimpleOuter(_, _)
SimpleOuter(m, i) ==
    IF i > Len(m) THEN <<>>
    ELSE SimpleInner(m, i, i + 1) \o SimpleOuter(m, i + 1)

batch_gcd_simple(m) == ToDict(SimpleOuter(m, 1))

(***************************************************************************)
(* batch_gcd_tree (Mode B).                                                *)
(***************************************************************************)
\* below this length the tree mode delegates to batch_gcd_simple
TreeThreshold == 100

\* one level of the product tree: neighbours multiplied, an odd last
\* element carried up
PairProducts(nums) ==
    [k \in 1..((Len(nums) + 1) \div 2) |->
        IF 2 * k <= Len(nums) THEN nums[2 * k - 1] * nums[2 * k]
        ELSE nums[2 * k - 1]]

RECURSIVE build_product_tree(_)
build_product_tree(nums) ==
    IF Len(nums) = 1 THEN nums[1] ELSE build_product_tree(PairProducts(nums))

\* math.gcd(n, root_product // n if root_product > n else root_product)
TreeLeafGcd(n, root_product) ==
    GCD(n, IF root_product > n THEN root_product \div n ELSE root_product)

\* if gcd > 1 and gcd < n
TreeFlagged(n, root_product) ==
    LET gcd == TreeLeafGcd(n, root_product) IN gcd > 1 /\ gcd < n

\* the body of the partner loop for the flagged leaf i and one j
TreePair(m, i, j) ==
    IF i /= j
    THEN LET pair_gcd == GCD(m[i], m[j])
         IN IF pair_gcd > 1 THEN << <<pair_gcd, <<m[i], m[j]>> >> >> ELSE <<>>
    ELSE <<>>

\* for j, m in enumerate(moduli)
RECURSIVE TreePartners(_, _, _)
TreePartners(m, i, j) ==
    IF j > Len(m) THEN <<>>
    ELSE TreePair(m, i, j) \o TreePartners(m, i, j + 1)

\* for i, n in enumerate(moduli)
RECURSIVE TreeLeaves(_, _, _)
TreeLeaves(m, root_product, i) ==
    IF i > Len(m) THEN <<>>
    ELSE (IF TreeFlagged(m[i], root_product) THEN TreePartners(m, i, 1) ELSE <<>>)
         \o TreeLeaves(m, root_product, i + 1)

\* Python integers do not overflow, so the except OverflowError branch
\* is never taken
batch_gcd_tree(m) ==
    IF Len(m) < TreeThreshold THEN batch_gcd_simple(m)
    ELSE ToDict(TreeLeaves(m, build_product_tree(m), 1))

(***************************************************************************)
(* SpecModes: the two detection modes called on one list of moduli.        *)
(* A result variable is <<>> until its call has returned and <<dict>>      *)
(* after.  Both are pure functions of the list; the pairwise mode is       *)
(* called first.                                                           *)
(***************************************************************************)
\* a prefix alone (below the threshold), or padded with the modulus 1 to a
\* length of TreeThreshold .. TreeThreshold + MaxExtra
ModeInputs ==
    UNION {{p} \cup {p \o Copies(TreeThreshold + x - Len(p), 1) : x \in 0..MaxExtra}
           : p \in Prefixes(ModeModuli)}

InitModes ==
    /\ df = <<>>
    /\ pc = "modes"
    /\ stats = <<>>
    /\ moduli \in ModeInputs
    /\ common_factors = <<>>
    /\ results_file = <<>>
    /\ simple_result = <<>>
    /\ tree_result = <<>>
    /\ MainIdle /\ ShardIdle

CallSimple ==
    /\ pc = "modes"
    /\ simple_result = <<>>
    /\ simple_result' = <<batch_gcd_simple(moduli)>>
    /\ UNCHANGED <<df, pc, stats, moduli, common_factors, results_file, tree_result>>
    /\ UNCHANGED <<mainVars, shardVars>>

CallTree ==
    /\ pc = "modes"
    /\ simple_result /= <<>>
    /\ tree_result = <<>>
    /\ tree_result' = <<batch_gcd_tree(moduli)>>
    /\ UNCHANGED <<df, pc, stats, moduli, common_factors, results_file, simple_result>>
    /\ UNCHANGED <<mainVars, shardVars>>

NextModes == CallSimple \/ CallTree

SpecModes == InitModes /\ [][NextModes]_vars

(***************************************************************************)
(* Spec: analyze_rsa_keys(df).                                             *)
(* A row of df has the columns the parser writes that the analysis reads:  *)
(* index, key_size, modulus_hex, modulus_sha256.                           *)
(***************************************************************************)
\* the row parse_certificate_from_entry returns for a key of modulus n
ParsedRow(index, n) ==
    [index |-> index,
     key_size |-> BitLength(n),
     modulus_hex |-> FormatHex(n),
     modulus_sha256 |-> modulus_sha256(n)]

\* what a corpus is made of: a parsed key, or a row whose modulus_hex
\* column does not hold hexadecimal digits
Entries == [n : Moduli, ok : {TRUE}] \cup {[n |-> 17, ok |-> FALSE]}

Row(index, e) ==
    IF e.ok THEN ParsedRow(index, e.n)
    ELSE [ParsedRow(index, e.n) EXCEPT !.modulus_hex = <<BadDigit>>]

\* a prefix of entries followed by k parsed keys of modulus 91
Corpus(p, k) ==
    LET es == p \o Copies(k, [n |-> 91, ok |-> TRUE])
    IN [i \in 1..Len(es) |-> Row(i - 1, es[i])]

Corpora == {Corpus(p, k) : p \in Prefixes(Entries), k \in 0..MaxDup}

\* the rows' moduli, for the rows that parse
RECURSIVE ModuliOf(_)
ModuliOf(d) ==
    IF d = <<>> THEN <<>>
    ELSE LET n == ParseHex(Head(d).modulus_hex)
         IN (IF n = ValueError THEN <<>> ELSE <<n>>) \o ModuliOf(Tail(d))

\* df.group_by("modulus_sha256", maintain_order=True)
\*   .agg([len as count, index as indices]).filter(count > 1):
\* one row per digest, in order of first appearance
RECURSIVE GroupRows(_, _)
GroupRows(d, i) ==
    IF i > Len(d) THEN <<>>
    ELSE LET sha == d[i].modulus_sha256
             first == \A j \in 1..(i - 1) : d[j].modulus_sha256 /= sha
             count == Cardinality({j \in 1..Len(d) : d[j].modulus_sha256 = sha})
         IN (IF first /\ count > 1
             THEN <<[modulus_sha256 |-> sha, count |-> count,
                     indices |->
                        LET same == SelectSeq(d, LAMBDA r : r.modulus_sha256 = sha)
                        IN [k \in 1..Len(same) |-> same[k].index]]>>
             ELSE <<>>) \o GroupRows(d, i + 1)

\* steps 1 and 2: key sizes and duplicate statistics
DuplicateStats(d) ==
    LET unique_moduli == Cardinality({d[i].modulus_sha256 : i \in 1..Len(d)})
        total_certs == Len(d)
        duplicates == total_certs - unique_moduli
    IN [key_sizes |-> {d[i].key_size : i \in 1..Len(d)},
        unique_moduli |-> unique_moduli,
        total_certs |-> total_certs,
        duplicates |-> duplicates,
        duplicates_df |-> IF duplicates > 0 THEN GroupRows(d, 1) ELSE <<>>]

NoStats ==
    [key_sizes |-> {}, unique_moduli |-> 0, total_certs |-> 0,
     duplicates |-> 0, duplicates_df |-> <<>>]

\* sum(len(pairs) * 2 for pairs in common_factors.values())
vulnerable_from_factors(cf) ==
    SumSeq([k \in 1..Len(Sorted(DOMAIN cf)) |-> Len(cf[Sorted(DOMAIN cf)[k]]) * 2])

\* safe_certs = unique_certs - len(common_factors) if common_factors
\*              else unique_certs
safe_certs(st, cf) == st.unique_moduli - Cardinality(DOMAIN cf)

\* unsafe_certs = (total_certs - unique_certs) + vulnerable_from_factors
unsafe_certs(st, cf) ==
    (st.total_certs - st.unique_moduli) + vulnerable_from_factors(cf)

\* the "recommendations" object
Recommendations(st, cf) ==
    LET common == PyDict(Cardinality(DOMAIN cf))
    IN [revoke_certificates |->
            PyOr(PyBool(st.duplicates > 0), PyBool(IsNotNone(common))),
        regenerate_keys |->
            PyOr(PyBool(st.duplicates > 0), PyBool(IsNotNone(common))),
        investigate_root_cause |->
            PyOr(PyBool(st.duplicates > 10),
                 PyAnd(common, PyBool(common.len > 0)))]

\* common_factors_details: {str(factor): [{"n1": str(n1), "n2": str(n2)}]}
CommonFactorsDetails(cf) ==
    [key \in {Str(g) : g \in DOMAIN cf} |->
        LET g == CHOOSE x \in DOMAIN cf : Str(x) = key
        IN [k \in 1..Len(cf[g]) |->
               [n1 |-> Str(cf[g][k][1]), n2 |-> Str(cf[g][k][2])]]]

\* DuplicatesDetails with the "indices" entry the code has removed
DuplicatesDetailsIndexed(st) ==
    [k \in 1..Len(st.duplicates_df) |->
        [modulus_sha256 |-> st.duplicates_df[k].modulus_sha256,
         occurrences |-> st.duplicates_df[k].count,
         indices |-> st.duplicates_df[k].indices,
         affected_certificates |-> st.duplicates_df[k].count]]

\* duplicates_details
DuplicatesDetails(st) ==
    [k \in 1..Len(st.duplicates_df) |->
        [modulus_sha256 |-> st.duplicates_df[k].modulus_sha256,
         occurrences |-> st.duplicates_df[k].count,
         affected_certificates |-> st.duplicates_df[k].count]]

\* the report, without its analysis_date
Results(d, st, cf) ==
    LET common == PyDict(Cardinality(DOMAIN cf))
    IN
    [analysis_metadata |-> [analysis_version |-> "1.0"],
     analysis_summary |->
        [total_certificates_analyzed |-> st.total_certs,
         unique_modulus_count |-> st.unique_moduli,
         duplicate_modulus_count |-> st.duplicates,
         common_factors_found |-> Cardinality(DOMAIN cf),
         status |-> IF PyOr(common, PyBool(st.duplicates > 0)).truthy
                    THEN "vulnerable" ELSE "safe"],
     security_statistics |->
        [safe_certificates |-> safe_certs(st, cf),
         unsafe_certificates |-> unsafe_certs(st, cf),
         safe_ratio |-> Round2(safe_certs(st, cf), st.total_certs),
         unsafe_ratio |-> Round2(unsafe_certs(st, cf), st.total_certs),
         vulnerable_from_duplicates |-> st.duplicates,
         vulnerable_from_common_factors |-> vulnerable_from_factors(cf),
         total_vulnerable |-> unsafe_certs(st, cf)],
     key_size_distribution |->
        [unique_sizes |-> Sorted(st.key_sizes),
         distribution |->
            [key \in {Str(size) : size \in st.key_sizes} |->
                Cardinality({i \in 1..Len(d) : Str(d[i].key_size) = key})]],
     duplicates_analysis |->
        [total_duplicates |-> st.duplicates,
         duplicate_ratio |-> Round2(st.duplicates, st.total_certs),
         unique_modulus_ratio |-> Round2(st.unique_moduli, st.total_certs),
         details |-> DuplicatesDetails(st)],
     common_factors_analysis |->
        [total_common_factors |-> Cardinality(DOMAIN cf),
         affected_certificates |-> vulnerable_from_factors(cf),
         details |-> CommonFactorsDetails(cf)],
     recommendations |-> Recommendations(st, cf)]

\* what analyze_rsa_keys(d) leaves in the results file: nothing after an
\* early return, else the report
AnalysisReport(d) ==
    IF Len(d) = 0 THEN <<>>
    ELSE IF Len(ModuliOf(d)) < 2 THEN <<>>
    ELSE <<Results(d, DuplicateStats(d), batch_gcd_simple(ModuliOf(d)))>>

Init ==
    /\ df \in Corpora
    /\ pc = "start"
    /\ stats = NoStats
    /\ moduli = <<>>
    /\ common_factors = <<>>
    /\ results_file = <<>>
    /\ simple_result = <<>>
    /\ tree_result = <<>>
    /\ MainIdle /\ ShardIdle

\* if len(df) == 0: return; else steps 1 and 2
CountDuplicates ==
    /\ pc = "start"
    /\ IF Len(df) = 0
       THEN pc' = "done" /\ UNCHANGED stats
       ELSE pc' = "convert" /\ stats' = DuplicateStats(df)
    /\ UNCHANGED <<df, moduli, common_factors, results_file, simple_result, tree_result>>
    /\ UNCHANGED <<mainVars, shardVars>>

\* step 3, conversion: rows whose modulus_hex does not parse are skipped;
\* if len(moduli) < 2: return
ConvertModuli ==
    /\ pc = "convert"
    /\ moduli' = ModuliOf(df)
    /\ pc' = IF Len(ModuliOf(df)) < 2 THEN "done" ELSE "batch_gcd"
    /\ UNCHANGED <<df, stats, common_factors, results_file, simple_result, tree_result>>
    /\ UNCHANGED <<mainVars, shardVars>>

\* common_factors = batch_gcd_simple(moduli)
RunBatchGcd ==
    /\ pc = "batch_gcd"
    /\ common_factors' = batch_gcd_simple(moduli)
    /\ pc' = "report"
    /\ UNCHANGED <<df, stats, moduli, results_file, simple_result, tree_result>>
    /\ UNCHANGED <<mainVars, shardVars>>

\* the statistics, the report and json.dump(results, f)
SaveReport ==
    /\ pc = "report"
    /\ results_file' = <<Results(df, stats, common_factors)>>
    /\ pc' = "done"
    /\ UNCHANGED <<df, stats, moduli, common_factors, simple_result, tree_result>>
    /\ UNCHANGED <<mainVars, shardVars>>

Next == CountDuplicates \/ ConvertModuli \/ RunBatchGcd \/ SaveReport

Spec == Init /\ [][Next]_vars

(***************************************************************************)
(* SpecMain: main() of scripts/crawler/fetch_ct.py.                        *)
(* state_file is the content of STATE_FILE: absent, a valid               *)
(* {"next_index": n}, or truncated (opened for writing and not written).   *)
(* output_files are the shard files of OUTPUT_DIR, each with its range and *)
(* whether it was written whole.  log_size is the tree size of the log.    *)
(***************************************************************************)
SHARD_SIZE == 10000
TARGET_TOTAL == 1000000

\* most whole shards in a log below the target
MaxShards == 3

Min(a, b) == IF a <= b THEN a ELSE b

\* tree sizes of the log: empty, up to MaxShards shards with or without
\* one entry more, and one entry more than the target
LogSizes ==
    {k * SHARD_SIZE + r : k \in 0..MaxShards, r \in {0, 1}} \cup {TARGET_TOTAL + 1}

\* what an earlier run against the same log may have left in STATE_FILE:
\* nothing, or the end of a shard it wrote, which is at most the size the
\* log had then and at most the target
StateFiles(size) ==
    {[status |-> "absent", next_index |-> 0]} \cup
    {[status |-> "valid", next_index |-> n] :
        n \in {x \in LogSizes \cup {TARGET_TOTAL - SHARD_SIZE, TARGET_TOTAL} :
                  x <= Min(size, TARGET_TOTAL)}}

\* len(entries): fetch_shard_robust returns nothing, a part, or the whole
\* of the expected entries
Counts(expected) == {0, expected \div 2, expected}

InitMain ==
    /\ AnalysisIdle /\ ShardIdle
    /\ log_size \in LogSizes
    /\ state_file \in StateFiles(log_size)
    /\ state_file0 = state_file
    /\ main = [pc |-> "load", start_index |-> 0, shard_end |-> 0, tree_size |-> 0,
               limit_index |-> 0, count |-> 0, write_error |-> FALSE]
    /\ output_files = {}

\* load_state() and state.get("next_index", 0)
LoadState ==
    /\ main.pc = "load"
    /\ main' = [main EXCEPT
                  !.start_index = IF state_file.status = "valid"
                                  THEN state_file.next_index ELSE 0,
                  !.pc = "sth"]
    /\ UNCHANGED <<analysisVars, shardVars, state_file, state_file0, log_size, output_files>>

\* get_tree_size: the size of the log, or None (here 0) after three failed
\* requests; "if not tree_size: return"
GetTreeSize ==
    /\ main.pc = "sth"
    /\ \E size \in {0, log_size} :
          main' = [main EXCEPT !.tree_size = size,
                               !.limit_index = Min(size, TARGET_TOTAL),
                               !.pc = IF size = 0 THEN "done" ELSE "loop"]
    /\ UNCHANGED <<analysisVars, shardVars, state_file, state_file0, log_size, output_files>>

\* while start_index < limit_index: shard_end = min(...)
LoopTest ==
    /\ main.pc = "loop"
    /\ main' = IF main.start_index < main.limit_index
               THEN [main EXCEPT
                       !.shard_end = Min(main.start_index + SHARD_SIZE, main.limit_index),
                       !.pc = "fetch"]
               ELSE [main EXCEPT !.pc = "done"]
    /\ UNCHANGED <<analysisVars, shardVars, state_file, state_file0, log_size, output_files>>

\* entries = await fetch_shard_robust(...); count = len(entries)
FetchShard ==
    /\ main.pc = "fetch"
    /\ \E count \in Counts(main.shard_end - main.start_index) :
          main' = [main EXCEPT !.count = count, !.pc = "write"]
    /\ UNCHANGED <<analysisVars, shardVars, state_file, state_file0, log_size, output_files>>

\* the shard file named by the range of this iteration
ShardFile(ok) == [start |-> main.start_index, end |-> main.shard_end, ok |-> ok]

\* the try block, gzip.open or gz.write raises: except, break
ShardWriteFails ==
    /\ main.pc = "write"
    /\ output_files' = output_files \cup {ShardFile(FALSE)}
    /\ main' = [main EXCEPT !.write_error = TRUE, !.pc = "done"]
    /\ UNCHANGED <<analysisVars, shardVars, state_file, state_file0, log_size>>

\* the try block, the shard is written and save_state raises in mkdir or
\* in open: STATE_FILE is as it was; except, break
SaveStateFailsAtOpen ==
    /\ main.pc = "write"
    /\ output_files' = output_files \cup {ShardFile(TRUE)}
    /\ main' = [main EXCEPT !.start_index = main.shard_end,
                            !.write_error = TRUE, !.pc = "done"]
    /\ UNCHANGED <<analysisVars, shardVars, state_file, state_file0, log_size>>

\* the try block, the shard is written and save_state raises after
\* open(STATE_FILE, "w") has truncated the file (json.dump or the flush on
\* close fails): except, break
SaveStateFailsAtWrite ==
    /\ main.pc = "write"
    /\ output_files' = output_files \cup {ShardFile(TRUE)}
    /\ state_file' = [status |-> "truncated", next_index |-> 0]
    /\ main' = [main EXCEPT !.start_index = main.shard_end,
                            !.write_error = TRUE, !.pc = "done"]
    /\ UNCHANGED <<analysisVars, shardVars, state_file0, log_size>>

\* the try block without an exception: the shard is written,
\* start_index = shard_end, state["next_index"] = start_index, save_state
ShardSaved ==
    /\ main.pc = "write"
    /\ output_files' = output_files \cup {ShardFile(TRUE)}
    /\ state_file' = [status |-> "valid", next_index |-> main.shard_end]
    /\ main' = [main EXCEPT !.start_index = main.shard_end, !.pc = "loop"]
    /\ UNCHANGED <<analysisVars, shardVars, state_file0, log_size>>

NextMain ==
    \/ LoadState \/ GetTreeSize \/ LoopTest \/ FetchShard
    \/ ShardWriteFails \/ SaveStateFailsAtOpen \/ SaveStateFailsAtWrite \/ ShardSaved

SpecMain == InitMain /\ [][NextMain]_vars

(***************************************************************************)
(* SpecShard: one call fetch_shard_robust(session, shard_start, shard_end, *)
(* semaphore).  The workers are asyncio tasks: a worker runs from one      *)
(* await to the next without interruption, so a step of a worker is the    *)
(* code between two awaits.  The event loop resumes every task whose       *)
(* sleep or request has completed, and a request completes (the session    *)
(* has a total timeout), hence the weak fairness of every worker.          *)
(* An entry is the dict {"index": idx, **entry_data}; entry_data is what   *)
(* get-entries returns, leaf_input and extra_data, and is left out.        *)
(***************************************************************************)
BATCH_SIZE == 256
CONCURRENCY == 16
MAX_RETRIES == 5

\* the entries a server that pages its answers returns at most
ServerPage == 100
\* the entries a server returns beyond the end it was asked for
ServerExtra == 3

\* lengths of the shard: less than a batch, a batch, and a batch followed
\* by a last batch of one entry or of ServerPage + 1 entries
ShardLens ==
    {1, ServerPage + 1, BATCH_SIZE, BATCH_SIZE + 1, BATCH_SIZE + ServerPage + 1}

\* for s in range(shard_start, shard_end, BATCH_SIZE):
\*     e = min(s + BATCH_SIZE - 1, shard_end - 1)
Tasks(shard_start, shard_end) ==
    [k \in 1..((shard_end - shard_start + BATCH_SIZE - 1) \div BATCH_SIZE) |->
        LET s == shard_start + (k - 1) * BATCH_SIZE
        IN [s |-> s, e |-> Min(s + BATCH_SIZE - 1, shard_end - 1)]]

\* len(entries) of a non-empty answer to get-entries?start=cur&end=e:
\* a page, all that was asked for, or more
Got(cur, e) ==
    {n \in {ServerPage} : n < e - cur + 1} \cup {e - cur + 1, e - cur + 1 + ServerExtra}

\* NewEntries without its "if idx > e: break"
NewEntriesUnclipped(cur, e, got) == [i \in 1..got |-> [index |-> cur + i - 1]]

\* for i, entry_data in enumerate(entries_raw): idx = cur + i;
\*     if idx > e: break; results.append({"index": idx, ...})
NewEntries(cur, e, got) ==
    [i \in 1..Min(got, e - cur + 1) |-> [index |-> cur + i - 1]]

\* list.sort(key=lambda x: x["index"]): a stable sort; the entry at
\* position j goes to the position that counts the entries before it
SortByIndex(xs) ==
    LET Ranks == <<>> \o [j \in 1..Len(xs) |->
                     1 + Cardinality({i \in 1..Len(xs) :
                             \/ xs[i].index < xs[j].index
                             \/ xs[i].index = xs[j].index /\ i < j})]
        Place(rank) == <<>> \o [p \in 1..Len(xs) |->
                                   xs[CHOOSE j \in 1..Len(xs) : rank[j] = p]]
    IN CHOOSE ys \in {Place(rank) : rank \in {Ranks}} : TRUE

\* for res in batch_results_list: all_entries.extend(res)
RECURSIVE Extend(_, _)
Extend(ws, k) ==
    IF k > Len(ws) THEN <<>> ELSE ws[k].results \o Extend(ws, k + 1)

InitShard ==
    /\ AnalysisIdle /\ MainIdle
    /\ \E len \in ShardLens :
          fetch = [pc |-> "start", shard_start |-> SHARD_SIZE,
                   shard_end |-> SHARD_SIZE + len,
                   tasks |-> <<>>, all_entries |-> <<>>]
    /\ workers = <<>>
    /\ semaphore = CONCURRENCY

\* the tasks are prepared and one worker is created for each
StartWorkers ==
    /\ fetch.pc = "start"
    /\ LET tasks == Tasks(fetch.shard_start, fetch.shard_end)
       IN /\ fetch' = [fetch EXCEPT !.tasks = tasks, !.pc = "gather"]
          /\ workers' = [k \in 1..Len(tasks) |->
                            [pc |-> "acquire", s |-> tasks[k].s, e |-> tasks[k].e,
                             cur |-> tasks[k].s, attempt |-> 0, results |-> <<>>]]
    /\ UNCHANGED <<analysisVars, mainVars, semaphore>>

\* async with semaphore: results = [], cur = s; the loop test holds
\* (s <= e) and the worker sleeps
Acquire(w) ==
    /\ workers[w].pc = "acquire"
    /\ semaphore > 0
    /\ semaphore' = semaphore - 1
    /\ workers' = [workers EXCEPT ![w].pc = "sleep"]
    /\ UNCHANGED <<analysisVars, mainVars, fetch>>

\* the sleep is over: fetch_entries_range sends its first request
Sleep(w) ==
    /\ workers[w].pc = "sleep"
    /\ workers' = [workers EXCEPT ![w].pc = "request", ![w].attempt = 1]
    /\ UNCHANGED <<analysisVars, mainVars, fetch, semaphore>>

\* the worker w with its loop left: it returns its results and releases
\* the semaphore (attempt is a local of fetch_entries_range and is 0
\* outside of it)
Returned(w, cur, results) ==
    /\ workers' = [workers EXCEPT ![w].pc = "done", ![w].cur = cur,
                                  ![w].attempt = 0, ![w].results = results]
    /\ semaphore' = semaphore + 1

\* HTTP 200 with got > 0 entries: they are appended up to e, cur += got,
\* and the loop goes on while cur <= e
Respond200(w) ==
    /\ workers[w].pc = "request"
    /\ \E got \in Got(workers[w].cur, workers[w].e) :
          LET results == workers[w].results
                            \o NewEntries(workers[w].cur, workers[w].e, got)
              cur == workers[w].cur + got
          IN IF cur <= workers[w].e
             THEN /\ workers' = [workers EXCEPT ![w].pc = "sleep", ![w].cur = cur,
                                                ![w].attempt = 0,
                                                ![w].results = results]
                  /\ UNCHANGED semaphore
             ELSE Returned(w, cur, results)
    /\ UNCHANGED <<analysisVars, mainVars, fetch>>

\* HTTP 200 with no entry, or a status that is not retried:
\* fetch_entries_range returns [], "if not entries_raw: break"
RespondNothing(w) ==
    /\ workers[w].pc = "request"
    /\ Returned(w, workers[w].cur, workers[w].results)
    /\ UNCHANGED <<analysisVars, mainVars, fetch>>

\* HTTP 429, 500, 502, 503 or a network exception: another attempt after
\* the backoff, and after MAX_RETRIES attempts [] and the break
RespondRetry(w) ==
    /\ workers[w].pc = "request"
    /\ IF workers[w].attempt < MAX_RETRIES
       THEN /\ workers' = [workers EXCEPT ![w].attempt = workers[w].attempt + 1]
            /\ UNCHANGED semaphore
       ELSE Returned(w, workers[w].cur, workers[w].results)
    /\ UNCHANGED <<analysisVars, mainVars, fetch>>

WorkerStep(w) ==
    Acquire(w) \/ Sleep(w) \/ Respond200(w) \/ RespondNothing(w) \/ RespondRetry(w)

\* asyncio.gather has every result: they are joined in task order and
\* sorted by index
Assemble ==
    /\ fetch.pc = "gather"
    /\ \A w \in 1..Len(workers) : workers[w].pc = "done"
    /\ \E all_entries \in {Extend(workers, 1)} :
          fetch' = [fetch EXCEPT !.all_entries = SortByIndex(all_entries),
                                 !.pc = "returned"]
    /\ UNCHANGED <<analysisVars, mainVars, workers, semaphore>>

\* the most workers a shard of the lengths above has
MaxWorkers ==
    CHOOSE n \in 1..CONCURRENCY :
        /\ \A len \in ShardLens : Len(Tasks(0, len)) <= n
        /\ \E len \in ShardLens : Len(Tasks(0, len)) = n

NextShard ==
    \/ StartWorkers
    \/ \E w \in 1..Len(workers) : WorkerStep(w)
    \/ Assemble

SpecShard ==
    /\ InitShard /\ [][NextShard]_vars
    /\ WF_vars(StartWorkers)
    /\ \A w \in 1..MaxWorkers : WF_vars(w <= Len(workers) /\ WorkerStep(w))
    /\ WF_vars(Assemble)

(***************************************************************************)
(* Properties.                                                             *)
(***************************************************************************)
\* the places of a dict {gcd: [pairs]}: <<g, k>> is the k-th pair under g
Places(cf) == UNION {{<<g, k>> : k \in 1..Len(cf[g])} : g \in DOMAIN cf}

\* the pair at a place, as an unordered pair of moduli
PairAt(cf, pl) == {cf[pl[1]][pl[2]][1], cf[pl[1]][pl[2]][2]}

\* the (factor, unordered pair) findings of a dict
Findings(cf) == {<<pl[1], PairAt(cf, pl)>> : pl \in Places(cf)}

\* the dict of the scenario 1 of the specification
Scenario1Groups == (3 :> << <<15, 21>> >>) @@ (5 :> << <<15, 35>> >>) @@ (7 :> << <<21, 35>> >>)

\* the dict of the scenario 2 of the specification
Scenario2Groups == (7 :> << <<91, 35>> >>)

\* the rows of a corpus that belong to a duplicate group or whose modulus
\* is a member of a reported pair
VulnerableRows(d, cf) ==
    {i \in 1..Len(d) :
        \/ \E j \in 1..Len(d) : j /= i /\ d[j].modulus_sha256 = d[i].modulus_sha256
        \/ \E pl \in Places(cf) : ParseHex(d[i].modulus_hex) \in PairAt(cf, pl)}

\* every pair of a dict is explained by a proper divisor that is its gcd
ProperFactors(cf) ==
    \A pl \in Places(cf) :
        LET g == pl[1]
            n1 == cf[pl[1]][pl[2]][1]
            n2 == cf[pl[1]][pl[2]][2]
        IN g = GCD(n1, n2) /\ 1 < g /\ g < n1 /\ g < n2

\* no pair of a dict has two equal members
NoEqualPair(cf) == \A pl \in Places(cf) : Cardinality(PairAt(cf, pl)) = 2

\* no unordered pair of records of the list m is listed twice in a dict:
\* a pair of values is listed at most as often as the list has pairs of
\* positions that hold these values
PairsOnce(m, cf) ==
    \A pl \in Places(cf) :
        Cardinality({q \in Places(cf) : PairAt(cf, q) = PairAt(cf, pl)})
            <= Cardinality({ij \in (1..Len(m)) \X (1..Len(m)) :
                              ij[1] < ij[2] /\ {m[ij[1]], m[ij[2]]} = PairAt(cf, pl)})

\* C1: once both modes have returned on the same list, they report the
\* same set of (factor, pair) findings, whatever the length of the list.
C1_ModesAgree ==
    (simple_result /= <<>> /\ tree_result /= <<>>)
        => Findings(simple_result[1]) = Findings(tree_result[1])

\* C2: the analysis of the moduli [15, 21, 35] ends with a report, the
\* three groups {3: [(15,21)]}, {5: [(15,35)]}, {7: [(21,35)]}, no
\* duplicate and total_vulnerable = 3.
C2_Scenario1 ==
    (pc = "done" /\ Len(df) = 3 /\ ModuliOf(df) = <<15, 21, 35>>)
        => /\ results_file /= <<>>
           /\ common_factors = Scenario1Groups
           /\ results_file[1].analysis_summary.duplicate_modulus_count = 0
           /\ results_file[1].security_statistics.total_vulnerable = 3

\* C3: the analysis of the moduli [91, 91, 35] ends with a report, one
\* duplicate group of 2 occurrences, the single group {7: [(91,35)]} of
\* one pair, and 3 vulnerable records of 3.
C3_Scenario2 ==
    (pc = "done" /\ Len(df) = 3 /\ ModuliOf(df) = <<91, 91, 35>>)
        => /\ results_file /= <<>>
           /\ Len(results_file[1].duplicates_analysis.details) = 1
           /\ results_file[1].duplicates_analysis.details[1].modulus_sha256
                  = modulus_sha256(91)
           /\ results_file[1].duplicates_analysis.details[1].occurrences = 2
           /\ common_factors = Scenario2Groups
           /\ results_file[1].security_statistics.total_vulnerable = 3
           /\ results_file[1].analysis_summary.total_certificates_analyzed = 3

\* C4: an analysis of no record or of one record ends with a report of
\* status "safe" whose duplicate, common-factor and vulnerable counts
\* are zero.
C4_Degenerate ==
    (pc = "done" /\ Len(df) <= 1)
        => /\ results_file /= <<>>
           /\ results_file[1].analysis_summary.status = "safe"
           /\ results_file[1].analysis_summary.duplicate_modulus_count = 0
           /\ results_file[1].analysis_summary.common_factors_found = 0
           /\ results_file[1].security_statistics.total_vulnerable = 0

\* C5: the report's total_vulnerable is the number of distinct records
\* that are in a duplicate group or in a common-factor pair.
C5_DistinctVulnerable ==
    results_file /= <<>>
        => results_file[1].security_statistics.total_vulnerable
               = Cardinality(VulnerableRows(df, common_factors))

\* C6: revoke_certificates and regenerate_keys are the boolean
\* "duplicates > 0 or a common-factor group exists".
C6_RevokeFlags ==
    results_file /= <<>>
        => LET want == PyBool(stats.duplicates > 0 \/ DOMAIN common_factors /= {})
           IN /\ results_file[1].recommendations.revoke_certificates = want
              /\ results_file[1].recommendations.regenerate_keys = want

\* C7: investigate_root_cause is the boolean "duplicates > 10 or a
\* common-factor group exists", and the boolean false when neither holds.
C7_InvestigateFlag ==
    results_file /= <<>>
        => results_file[1].recommendations.investigate_root_cause
               = PyBool(stats.duplicates > 10 \/ DOMAIN common_factors /= {})

\* C8: in both modes, on a list of positive moduli, the factor of every
\* reported pair is the pair's gcd and a proper divisor of both members.
C8_ProperDivisor ==
    /\ simple_result /= <<>> => ProperFactors(simple_result[1])
    /\ tree_result /= <<>> => ProperFactors(tree_result[1])

\* C9: in both modes no reported pair has two equal members, so none
\* joins a record with itself or two records of equal moduli.
C9_NoEqualPair ==
    /\ simple_result /= <<>> => NoEqualPair(simple_result[1])
    /\ tree_result /= <<>> => NoEqualPair(tree_result[1])

\* both modes have reported a pair on a list that reaches the tree
\* mode's threshold and holds the same modulus > 1 twice
C9_Witness ==
    /\ Len(moduli) >= TreeThreshold
    /\ \E i, j \in 1..Len(moduli) : i < j /\ moduli[i] = moduli[j] /\ moduli[i] > 1
    /\ simple_result /= <<>> /\ tree_result /= <<>>
    /\ Places(simple_result[1]) /= {}
    /\ Places(tree_result[1]) /= {}

\* C10: in the output of either mode no unordered pair of records is
\* listed twice, in the same or in reversed order, under one factor or
\* under two.
C10_PairOnce ==
    /\ simple_result /= <<>> => PairsOnce(moduli, simple_result[1])
    /\ tree_result /= <<>> => PairsOnce(moduli, tree_result[1])

\* the corpus d with the index column replaced by f
Reindex(d, f) == [i \in 1..Len(d) |-> [d[i] EXCEPT !.index = f[i]]]

\* other index columns for a corpus of n rows: shifted, and reversed
IndexColumns(n) == {[i \in 1..n |-> 1000 + i], [i \in 1..n |-> n - i]}

\* C11: the saved report is the one the analysis saves for the same
\* corpus under any other index column, and no entry of
\* common_factors_analysis.details or duplicates_analysis.details has a
\* field other than n1, n2 / modulus_sha256, occurrences,
\* affected_certificates.
C11_IndexIndependent ==
    pc = "done" =>
        /\ \A f \in IndexColumns(Len(df)) :
               results_file = AnalysisReport(Reindex(df, f))
        /\ results_file /= <<>> =>
              LET dup == results_file[1].duplicates_analysis.details
                  com == results_file[1].common_factors_analysis.details
              IN /\ \A k \in 1..Len(dup) :
                        DOMAIN dup[k] =
                            {"modulus_sha256", "occurrences", "affected_certificates"}
                 /\ \A key \in DOMAIN com : \A k \in 1..Len(com[key]) :
                        DOMAIN com[key][k] = {"n1", "n2"}

\* a report was saved with a duplicate group and a common-factor pair
C11_Witness ==
    /\ pc = "done" /\ results_file /= <<>>
    /\ results_file[1].duplicates_analysis.details /= <<>>
    /\ DOMAIN results_file[1].common_factors_analysis.details /= {}

\* the rows of a corpus whose modulus_hex parses to a value > 0
ValidRows(d) == {i \in 1..Len(d) : ParseHex(d[i].modulus_hex) > 0}

\* C12: a row whose modulus_hex does not parse, or parses to a value that
\* is not > 0, takes no part in detection: the list of moduli holds only
\* values > 0, no reported pair has a member that is not > 0, and with two
\* valid rows or more the analysis ends with a report.
C12_InvalidExcluded ==
    /\ pc \in {"batch_gcd", "report", "done"} =>
          /\ Len(moduli) = Cardinality(ValidRows(df))
          /\ \A k \in 1..Len(moduli) : moduli[k] > 0
    /\ \A pl \in Places(common_factors) : \A n \in PairAt(common_factors, pl) : n > 0
    /\ (pc = "done" /\ Cardinality(ValidRows(df)) >= 2) => results_file /= <<>>

\* every row parses, and the moduli are pairwise distinct and coprime
CoprimeCorpus(d) ==
    /\ \A i \in 1..Len(d) : ParseHex(d[i].modulus_hex) /= ValueError
    /\ \A i, j \in 1..Len(d) :
          i < j => /\ ParseHex(d[i].modulus_hex) /= ParseHex(d[j].modulus_hex)
                   /\ GCD(ParseHex(d[i].modulus_hex), ParseHex(d[j].modulus_hex)) = 1

\* C13: the analysis of two records or more whose moduli are pairwise
\* distinct and pairwise coprime ends with a report of zero duplicates,
\* zero common-factor groups, status "safe" and unsafe_ratio 0.0.
C13_CoprimeSafe ==
    (pc = "done" /\ Len(df) >= 2 /\ CoprimeCorpus(df))
        => /\ results_file /= <<>>
           /\ results_file[1].analysis_summary.duplicate_modulus_count = 0
           /\ results_file[1].duplicates_analysis.details = <<>>
           /\ results_file[1].analysis_summary.common_factors_found = 0
           /\ results_file[1].analysis_summary.status = "safe"
           /\ results_file[1].security_statistics.unsafe_ratio = 0

\* the analysis of three pairwise coprime moduli has ended
C13_Witness ==
    pc = "done" /\ Len(df) = 3 /\ CoprimeCorpus(df) /\ results_file /= <<>>

\* C16: in a report safe_certificates and unsafe_certificates are each
\* between 0 and the number of records analysed and add up to it, and
\* both ratios are between 0 and 100 percent.
C16_Partition ==
    results_file /= <<>> =>
        LET st == results_file[1].security_statistics
            total == results_file[1].analysis_summary.total_certificates_analyzed
        IN /\ 0 <= st.safe_certificates /\ st.safe_certificates <= total
           /\ 0 <= st.unsafe_certificates /\ st.unsafe_certificates <= total
           /\ st.safe_certificates + st.unsafe_certificates = total
           /\ 0 <= st.safe_ratio /\ st.safe_ratio <= 10000
           /\ 0 <= st.unsafe_ratio /\ st.unsafe_ratio <= 10000

\* the next_index a run would load from a state file
Persisted(f) == IF f.status = "valid" THEN f.next_index ELSE 0

\* C14: the persisted next_index is the initial one or the end of a shard
\* whose file was written without error, it is not below the initial one
\* and not above min(tree_size, TARGET_TOTAL), and after a disk-write
\* failure the loop has stopped with the state file as it was when the
\* failing iteration began.
C14_Checkpoint ==
    /\ \/ state_file = state_file0
       \/ /\ state_file.status = "valid"
          /\ \E f \in output_files : f.ok /\ f.end = state_file.next_index
    /\ Persisted(state_file) >= Persisted(state_file0)
    /\ main.pc \in {"loop", "fetch", "write"}
          => Persisted(state_file) <= Min(main.tree_size, TARGET_TOTAL)
    /\ main.write_error
          => /\ main.pc = "done"
             /\ state_file.status /= "truncated"
             /\ \E f \in output_files : f.end = main.shard_end
                                        /\ f.start = Persisted(state_file)

\* the call has returned a list that is strictly increasing in index and
\* lies within [shard_start, shard_end)
SortedInShard ==
    /\ \A k \in 1..(Len(fetch.all_entries) - 1) :
          fetch.all_entries[k].index < fetch.all_entries[k + 1].index
    /\ \A k \in 1..Len(fetch.all_entries) :
          /\ fetch.shard_start <= fetch.all_entries[k].index
          /\ fetch.all_entries[k].index < fetch.shard_end

\* every worker has returned
WorkersDone ==
    fetch.pc /= "start" /\ \A w \in 1..Len(workers) : workers[w].pc = "done"

====
